---- MODULE Spec2Model ----
(***************************************************************************)
(* A model of the TARIC scraper (src/main.go): the rate-gated, retrying    *)
(* request client (makeAPIRequest), the recursive tree expansion           *)
(* (findDeclarableCommodities, processChapter) and the worker pool,        *)
(* collector and aggregation of main.                                      *)
(*                                                                         *)
(* Strings that are compared, sliced or measured (the codes) are sequences *)
(* of digits: "0101" is <<0,1,0,1>>.  Descriptions are only copied and are *)
(* TLA+ strings.  Time, where it is modelled, is counted in units of 50ms. *)
(***************************************************************************)
EXTENDS Integers, Sequences, FiniteSets, Bags, TLC

\* ------------------------------------------------------------ constants

\* const maxRetries = 4
maxRetries == 4
\* const rateLimit = 150 * time.Millisecond, in units of 50ms
rateLimit == 3
\* time.Second, in units of 50ms
Second == 20
\* const maxWorkers = 25 in the source; the number of worker goroutines here
maxWorkers == 2
\* the last instant the timed gate model looks at, in units of 50ms
MaxTime == 24

\* the worker goroutines
Workers == 1..maxWorkers

\* the elements of a sequence, as a set and as a bag
Range(q) == {q[k] : k \in 1..Len(q)}
BagOfSeq(q) == [x \in Range(q) |-> Cardinality({k \in 1..Len(q) : q[k] = x})]

\* ------------------------------------------------------------ transport

\* One outcome of httpClient.Do followed by io.ReadAll: net is doErr != nil,
\* status is res.StatusCode, readOk is whether io.ReadAll succeeded.
NetErr == [net |-> TRUE, status |-> 0, readOk |-> FALSE]
St(s) == [net |-> FALSE, status |-> s, readOk |-> TRUE]
ReadErr == [net |-> FALSE, status |-> 200, readOk |-> FALSE]
Outcomes == {NetErr, St(429), St(500), St(503), St(404), St(499), St(200), ReadErr}

\* A script gives the outcome of the 1st, 2nd, ... attempt of a call.
Always(o) == [k \in 1..maxRetries |-> o]
Scripts == [1..maxRetries -> Outcomes]

\* res.StatusCode == http.StatusTooManyRequests || res.StatusCode >= 500
RetryableStatusMutant(s) == s = 429 \/ s >= 400
RetryableStatus(s) == s = 429 \/ s >= 500

\* the outcomes after which the loop sleeps and continues
Retryable(o) == o.net \/ RetryableStatus(o.status)

\* time.Duration(1<<i) * time.Second, in seconds
BackoffMutant(i) == i + 1
Backoff(i) == 2 ^ i

\* The state of one call of makeAPIRequest.  state is "idle" (no call),
\* "waiting" (blocked in <-rateLimiter.C at the head of iteration i),
\* "inflight" (inside httpClient.Do and io.ReadAll), "asleep" (inside
\* time.Sleep of iteration i) or "returned".  tries counts the calls of
\* httpClient.Do, slept lists the backoffs (seconds), ok tells body from
\* error, errStatus is the status the error carries (0: none).
IdleReq == [state |-> "idle", url |-> <<>>, i |-> 0, tries |-> 0, slept |-> <<>>,
            ok |-> FALSE, errStatus |-> 0]
NewReq(url) == [IdleReq EXCEPT !.state = "waiting", !.url = url]

\* A byte of a code that is not a digit is a negative number; it stands for
\* a control byte, which sorts before the digits and which url.Parse rejects.
CtlByte == -1
\* whether http.NewRequest(http.MethodGet, url, nil) fails
BadURL(url) == \E n \in 2..Len(url) : \E k \in 1..Len(url[n]) : url[n][k] < 0

\* the loop condition i < maxRetries, evaluated after i++
LoopContinuesMutant(i) == i <= maxRetries
LoopContinues(i) == i < maxRetries

\* The head of an iteration once the tick is received: http.NewRequest; its
\* error ends the call, otherwise httpClient.Do is called.
StartAttempt(r) ==
  IF BadURL(r.url) THEN [r EXCEPT !.state = "returned", !.ok = FALSE, !.errStatus = 0]
  ELSE [r EXCEPT !.state = "inflight", !.tries = r.tries + 1]

\* httpClient.Do and io.ReadAll have ended with the outcome o: a network
\* error or a retryable status sets err and goes to sleep, another status
\* than 200 and a read error return the error, otherwise the body is returned
Answer(r, o) ==
  IF o.net \/ RetryableStatus(o.status)
  THEN [r EXCEPT !.state = "asleep", !.slept = Append(r.slept, Backoff(r.i)),
                 !.errStatus = IF o.net THEN 0 ELSE o.status]
  ELSE IF o.status # 200
  THEN [r EXCEPT !.state = "returned", !.ok = FALSE, !.errStatus = o.status]
  ELSE IF ~o.readOk
  THEN [r EXCEPT !.state = "returned", !.ok = FALSE, !.errStatus = 0]
  ELSE [r EXCEPT !.state = "returned", !.ok = TRUE, !.errStatus = 0]

\* time.Sleep returns: continue, i++, the loop test; return nil, err after the loop
Wake(r) ==
  IF LoopContinues(r.i + 1) THEN [r EXCEPT !.state = "waiting", !.i = r.i + 1]
  ELSE [r EXCEPT !.state = "returned", !.i = r.i + 1, !.ok = FALSE]

\* whether a call is between its start and its return
InCall(r) == r.state \in {"waiting", "inflight", "asleep"}

\* ------------------------------------------------------------ the catalog

\* The API behind httpClient: for the chapter list and for every node URL a
\* script of attempt outcomes and the body a 200 carries.  json tells
\* whether json.Unmarshal accepts the body.
Item(t, c) == [Type |-> t, code |-> c]
Node(c, d, decl, inc) ==
  [json |-> TRUE, Data |-> [code |-> c, Description |-> d, Declarable |-> decl],
   Included |-> inc]
BadJSON == [json |-> FALSE, Data |-> [code |-> <<>>, Description |-> "", Declarable |-> FALSE],
            Included |-> <<>>]
Resp(script, body) == [script |-> script, body |-> body]
NotFound == Resp(Always(St(404)), BadJSON)
ListOf(script, json, ids) == [script |-> script, json |-> json, Data |-> ids]

\* endpointType: "chapters" for a 2-character code, "commodities" otherwise
endpointType(code) == IF Len(code) = 2 THEN "chapters" ELSE "commodities"
\* fmt.Sprintf("%s/%s/%s", baseURL, endpointType, commodityCode)
URL(code) == <<endpointType(code), code>>
ListURL == <<"chapters">>

\* what the API answers at a node URL; a URL the catalog does not list is a 404
Lookup(cat, url) ==
  IF url[2] \in DOMAIN cat.nodes THEN cat.nodes[url[2]] ELSE NotFound

\* the outcome of the k-th attempt of a call (a script repeats its last outcome)
OutcomeAt(script, k) == IF k \in DOMAIN script THEN script[k] ELSE script[maxRetries]

\* ------------------------------------------------------------ tree expansion

\* The state of one processChapter: the visited map, *finalEntries, the
\* pending range loops over response.Included (innermost last), the call of
\* makeAPIRequest under way, the record of the last call that returned, and
\* two history fields: for each Entry the code whose expansion appended it
\* (by) and the codes makeAPIRequest was called for, in order (calls).
EmptyTrav == [visited |-> {}, finalEntries |-> <<>>, by |-> <<>>, stack |-> <<>>,
              req |-> IdleReq, last |-> IdleReq, calls |-> <<>>]

\* findDeclarableCommodities up to its call of makeAPIRequest
CallNodeMutant(tr, code) ==
  [tr EXCEPT !.visited = @ \cup {code}, !.req = NewReq(URL(code)),
             !.calls = Append(@, code)]
CallNode(tr, code) ==
  IF code \in tr.visited THEN tr
  ELSE [tr EXCEPT !.visited = @ \cup {code}, !.req = NewReq(URL(code)),
                  !.calls = Append(@, code)]

\* if child.Type == "commodity" || child.Type == "heading"
FollowedMutant(child) == TRUE
Followed(child) == child.Type = "commodity" \/ child.Type = "heading"

\* Run the pending range loops until a call blocks at the rate gate or the
\* outermost call has returned.
RECURSIVE Resume(_)
Resume(tr) ==
  IF InCall(tr.req) \/ tr.stack = <<>> THEN tr
  ELSE LET n == Len(tr.stack)
           f == tr.stack[n] IN
       IF f.idx > Len(f.children)
       THEN Resume([tr EXCEPT !.stack = SubSeq(@, 1, n - 1)])
       ELSE LET adv == [tr EXCEPT !.stack[n].idx = f.idx + 1]
                child == f.children[f.idx] IN
            IF Followed(child) THEN Resume(CallNode(adv, child.code))
            ELSE Resume(adv)

\* findDeclarableCommodities after makeAPIRequest returned: the error and
\* parse-error returns, the append of the Entry, the range over Included
AfterRequestMutant(tr, body) ==
  LET back == [tr EXCEPT !.last = tr.req, !.req = IdleReq] IN
  IF ~tr.req.ok \/ ~body.json
  THEN [back EXCEPT !.stack = <<>>, !.finalEntries = <<>>, !.by = <<>>]
  ELSE LET e == IF body.Data.Declarable
                THEN [back EXCEPT
                        !.finalEntries = Append(@, [Code |-> body.Data.code,
                                                    Description |-> body.Data.Description]),
                        !.by = Append(@, tr.req.url[2])]
                ELSE back IN
       Resume([e EXCEPT !.stack = Append(@, [children |-> body.Included, idx |-> 1])])
AfterRequestForgets(tr, body) ==
  LET back == [tr EXCEPT !.last = tr.req, !.req = IdleReq] IN
  IF ~tr.req.ok \/ ~body.json
  THEN Resume([back EXCEPT !.visited = @ \ {tr.req.url[2]}])
  ELSE LET e == IF body.Data.Declarable
                THEN [back EXCEPT
                        !.finalEntries = Append(@, [Code |-> body.Data.code,
                                                    Description |-> body.Data.Description]),
                        !.by = Append(@, tr.req.url[2])]
                ELSE back IN
       Resume([e EXCEPT !.stack = Append(@, [children |-> body.Included, idx |-> 1])])
AfterRequest(tr, body) ==
  LET back == [tr EXCEPT !.last = tr.req, !.req = IdleReq] IN
  IF ~tr.req.ok THEN Resume(back)
  ELSE IF ~body.json THEN Resume(back)
  ELSE LET e == IF body.Data.Declarable
                THEN [back EXCEPT
                        !.finalEntries = Append(@, [Code |-> body.Data.code,
                                                    Description |-> body.Data.Description]),
                        !.by = Append(@, tr.req.url[2])]
                ELSE back IN
       Resume([e EXCEPT !.stack = Append(@, [children |-> body.Included, idx |-> 1])])

\* the call of makeAPIRequest under way has returned: the expansion goes on
\* to its next call or to its end
Returned(tr, r, body) ==
  IF r.state = "returned" THEN AfterRequest([tr EXCEPT !.req = r], body)
  ELSE [tr EXCEPT !.req = r]

\* what the API holds for the call under way
Asked(tr, cat) == Lookup(cat, tr.req.url)

\* the tick is received: http.NewRequest and the start of httpClient.Do
TravStart(tr, cat) == Returned(tr, StartAttempt(tr.req), Asked(tr, cat).body)
\* the request is answered
TravAnswer(tr, cat) ==
  Returned(tr, Answer(tr.req, OutcomeAt(Asked(tr, cat).script, tr.req.i + 1)),
           Asked(tr, cat).body)
\* the backoff is over
TravWake(tr, cat) == Returned(tr, Wake(tr.req), Asked(tr, cat).body)

\* the next step of a traversal that nothing delays
TravStep(tr, cat) ==
  CASE tr.req.state = "waiting" -> TravStart(tr, cat)
    [] tr.req.state = "inflight" -> TravAnswer(tr, cat)
    [] tr.req.state = "asleep" -> TravWake(tr, cat)
    [] OTHER -> tr

\* processChapter up to its first call of makeAPIRequest
StartChapterMutant(chapterID) == CallNode([EmptyTrav EXCEPT !.visited = {<<0, 1, 0, 2>>}], chapterID)
StartChapter(chapterID) == CallNode(EmptyTrav, chapterID)

\* whether processChapter has returned
Finished(tr) == ~InCall(tr.req)

\* processChapter run to its end against a catalog
RECURSIVE RunToEnd(_, _)
RunToEnd(tr, cat) == IF Finished(tr) THEN tr ELSE RunToEnd(TravStep(tr, cat), cat)
processChapter(chapterID, cat) == RunToEnd(StartChapter(chapterID), cat).finalEntries

\* ------------------------------------------------------------ aggregation

\* Go's < on strings: byte-wise, a proper prefix is smaller
RECURSIVE StrLess(_, _)
StrLess(a, b) ==
  IF b = <<>> THEN FALSE
  ELSE IF a = <<>> THEN TRUE
  ELSE IF a[1] # b[1] THEN a[1] < b[1]
  ELSE StrLess(Tail(a), Tail(b))

\* the seen map and the loop over allFoundEntries: the first Entry of a code is kept
DedupeMutant(entries, seen) == entries
RECURSIVE Dedupe(_, _)
Dedupe(entries, seen) ==
  IF entries = <<>> THEN <<>>
  ELSE IF entries[1].Code \in seen THEN Dedupe(Tail(entries), seen)
  ELSE <<entries[1]>> \o Dedupe(Tail(entries), seen \cup {entries[1].Code})

\* sort.Slice(uniqueEntries, less by Code): by insertion
InsertMutant(e, sorted) == sorted \o <<e>>
RECURSIVE Insert(_, _)
Insert(e, sorted) ==
  IF sorted = <<>> THEN <<e>>
  ELSE IF StrLess(e.Code, sorted[1].Code) THEN <<e>> \o sorted
  ELSE <<sorted[1]>> \o Insert(e, Tail(sorted))
RECURSIVE SortByCode(_)
SortByCode(entries) ==
  IF entries = <<>> THEN <<>> ELSE Insert(entries[1], SortByCode(Tail(entries)))

\* the deduplication, then the sort
AggregateMutant(entries) == Dedupe(SortByCode(entries), {})
Aggregate(entries) == SortByCode(Dedupe(entries, {}))

\* ------------------------------------------------------------ catalogs of the runs

c01 == <<0, 1>>
c02 == <<0, 2>>
c03 == <<0, 3>>
c0101 == <<0, 1, 0, 1>>
c0102 == <<0, 1, 0, 2>>
c0100000000 == <<0, 1, 0, 0, 0, 0, 0, 0, 0, 0>>
c0200000000 == <<0, 2, 0, 0, 0, 0, 0, 0, 0, 0>>
c0101210000 == <<0, 1, 0, 1, 2, 1, 0, 0, 0, 0>>
\* "0101" followed by a control byte
cBad == <<0, 1, 0, 1, CtlByte>>

Ok200 == Always(St(200))
\* 429 on the first attempt, 200 afterwards
Throttled == [k \in 1..maxRetries |-> IF k = 1 THEN St(429) ELSE St(200)]

\* chapter 01 -> heading 0101 (not declarable) -> commodity 0101210000
\* (declarable, "Horses"); chapter 02 with nothing declarable
CatHorses ==
  [list |-> ListOf(Ok200, TRUE, <<c0100000000, c0200000000>>),
   nodes |-> (c01 :> Resp(Ok200, Node(c0100000000, "Live animals", FALSE,
                                     <<Item("heading", c0101)>>))
           @@ c0101 :> Resp(Ok200, Node(c0101, "Live horses", FALSE,
                                     <<Item("commodity", c0101210000)>>))
           @@ c0101210000 :> Resp(Ok200, Node(c0101210000, "Horses", TRUE, <<>>))
           @@ c02 :> Resp(Ok200, Node(c0200000000, "Meat", FALSE, <<>>)))]

\* three chapters: 01 includes a throttled declarable node, then a node that
\* exhausts its retries, then a declarable node and a node of another kind;
\* 02 answers with a malformed body; 03 is declarable itself and includes
\* the node 0102 again
CatFailures ==
  [list |-> ListOf(Throttled, TRUE, <<c01, c02, c03>>),
   nodes |-> (c01 :> Resp(Ok200, Node(c01, "one", FALSE,
                                     <<Item("commodity", c0102), Item("heading", c0101),
                                       Item("commodity", c0101210000),
                                       Item("section", c0200000000)>>))
           @@ c0101 :> Resp(Always(St(500)), Node(c0101, "lost", TRUE,
                                     <<Item("commodity", c0200000000)>>))
           @@ c0102 :> Resp(Throttled, Node(c0102, "kept", TRUE, <<>>))
           @@ c0101210000 :> Resp(Ok200, Node(c0101210000, "Horses", TRUE, <<>>))
           @@ c0200000000 :> Resp(Ok200, Node(c0200000000, "unreached", TRUE, <<>>))
           @@ c02 :> Resp(Ok200, BadJSON)
           @@ c03 :> Resp(Ok200, Node(c03, "three", TRUE, <<Item("commodity", c0102)>>)))]

\* two chapters whose responses carry the same code with different descriptions
CatSameCode ==
  [list |-> ListOf(Ok200, TRUE, <<c01, c02>>),
   nodes |-> (c01 :> Resp(Ok200, Node(c0100000000, "a", TRUE, <<>>))
           @@ c02 :> Resp(Ok200, Node(c0100000000, "b", TRUE, <<>>)))]

\* a cycle 0101 <-> 0102 under chapter 01, 0102 reachable through two parents;
\* the chapter list names the chapter 01 twice
CatCycle ==
  [list |-> ListOf(Ok200, TRUE, <<c0100000000, c0101>>),
   nodes |-> (c01 :> Resp(Ok200, Node(c01, "one", FALSE,
                                     <<Item("heading", c0101), Item("commodity", c0102)>>))
           @@ c0101 :> Resp(Ok200, Node(c0101, "A", TRUE, <<Item("commodity", c0102)>>))
           @@ c0102 :> Resp(Ok200, Node(c0102, "B", TRUE, <<Item("heading", c0101)>>)))]

\* chapter 01, declarable, includes a section and a chapter (both declarable,
\* neither followed) and a heading that includes itself
CatSection ==
  [list |-> ListOf(Ok200, TRUE, <<c0100000000>>),
   nodes |-> (c01 :> Resp(Ok200, Node(c0100000000, "root", TRUE,
                                     <<Item("section", c0102), Item("heading", c0101),
                                       Item("chapter", c02)>>))
           @@ c0101 :> Resp(Ok200, Node(c0101, "A", TRUE, <<Item("commodity", c0101)>>))
           @@ c0102 :> Resp(Ok200, Node(c0102, "skipped", TRUE, <<>>))
           @@ c02 :> Resp(Ok200, Node(c0200000000, "other chapter", TRUE, <<>>)))]

\* chapter 01 includes a commodity whose code cannot be put into a URL, then
\* a declarable commodity
CatBadCode ==
  [list |-> ListOf(Ok200, TRUE, <<c01>>),
   nodes |-> (c01 :> Resp(Ok200, Node(c01, "one", FALSE,
                                     <<Item("commodity", cBad), Item("commodity", c0102)>>))
           @@ c0102 :> Resp(Ok200, Node(c0102, "after", TRUE, <<>>)))]

\* the chapter list cannot be fetched: retries exhausted, or a 404
CatListDown == [list |-> ListOf(Always(St(503)), TRUE, <<c01>>), nodes |-> CatHorses.nodes]
CatListGone == [list |-> ListOf(Always(St(404)), TRUE, <<c01>>), nodes |-> CatHorses.nodes]
\* the chapter list is not JSON
CatListBad == [list |-> ListOf(Ok200, FALSE, <<c01>>), nodes |-> CatHorses.nodes]
\* a listed chapter whose goods_nomenclature_item_id has one character
CatListShort == [list |-> ListOf(Ok200, TRUE, <<c01, <<1>>>>), nodes |-> CatHorses.nodes]
\* an empty chapter list
CatListEmpty == [list |-> ListOf(Ok200, TRUE, <<>>), nodes |-> CatHorses.nodes]

Catalogs == {CatHorses, CatFailures, CatSameCode, CatCycle, CatSection, CatBadCode,
             CatListDown, CatListGone, CatListBad, CatListShort, CatListEmpty}

\* ------------------------------------------------------------ state

\* outputFile before os.Create
NoFile == [exists |-> FALSE, header |-> FALSE, rows |-> <<>>, warned |-> {}]

VARIABLES
  catalog,            \* the API's answers, fixed for a run
  gate,               \* ticks held by rateLimiter.C (a channel of capacity 1)
  mpc,                \* where main is
  mreq,               \* main's call of makeAPIRequest (the chapter list)
  chapterIDs,         \* main's chapterIDs
  enq,                \* the index of the next chapterID main sends to jobs
  jobs, jobsClosed,   \* the jobs channel
  resultsChan, resultsClosed,   \* the results channel
  wpc,                \* where each worker goroutine is
  trav,               \* each worker's processChapter
  cpc,                \* where the collector goroutine is
  allFoundEntries,
  completedChapters,
  opc,                \* where the progress goroutine is
  uniqueEntries,      \* main's uniqueEntries: the aggregator's output
  outFile,            \* the output file on disk
  taken,              \* history: the bag of chapterIDs received from jobs
  produced,           \* history: the bag of <<chapterID, result>> of finished processChapter calls
  chap,               \* each worker's chapterID
  now,                \* timed gate model: the time, in units of 50ms
  callers,            \* timed gate model: each caller's call of makeAPIRequest and wake-up time
  starts,             \* timed gate model: history, the time of the last request start and
                      \* the smallest distance seen between two request starts
  gateLog             \* history: the ticks rateLimiter.C has accepted, the ticks received
                      \* from it and the calls of httpClient.Do, over all callers

vars == <<catalog, gate, mpc, mreq, chapterIDs, enq, jobs, jobsClosed, resultsChan,
          resultsClosed, wpc, trav, cpc, allFoundEntries, completedChapters, opc,
          uniqueEntries, outFile, taken, produced, chap, now, callers, starts, gateLog>>

pipelineVars == <<catalog, mpc, mreq, chapterIDs, enq, jobs, jobsClosed, resultsChan,
                  resultsClosed, wpc, trav, cpc, allFoundEntries, completedChapters, opc,
                  uniqueEntries, outFile, taken, produced, chap>>
timedVars == <<now, callers, starts>>

\* the process has neither exited nor panicked
Running == mpc \notin {"fatal", "panic", "barPanic", "fileFatal", "done"}

totalChapters == Len(chapterIDs)

InitCommon ==
  /\ gate = 0
  /\ mreq = NewReq(ListURL)
  /\ chapterIDs = <<>>
  /\ enq = 1
  /\ jobs = <<>> /\ jobsClosed = FALSE
  /\ resultsChan = <<>> /\ resultsClosed = FALSE
  /\ cpc = "unstarted"
  /\ allFoundEntries = <<>>
  /\ completedChapters = 0
  /\ opc = "unstarted"
  /\ uniqueEntries = <<>>
  /\ outFile = NoFile
  /\ taken = EmptyBag
  /\ produced = EmptyBag
  /\ chap = [w \in Workers |-> <<>>]
  /\ now = 0
  /\ callers = [p \in Workers |-> [req |-> IdleReq, wake |-> 0]]
  /\ starts = [last |-> -1, gap |-> rateLimit]
  /\ gateLog = [ticks |-> 0, taken |-> 0, attempts |-> 0]

\* the state when main begins: the ticker is created, nothing else runs
Init ==
  /\ InitCommon
  /\ catalog \in Catalogs
  /\ mpc = "bootstrap"
  /\ wpc = [w \in Workers |-> "unstarted"]
  /\ trav = [w \in Workers |-> EmptyTrav]

\* ------------------------------------------------------------ the rate gate

\* <-rateLimiter.C: what the receive leaves in the channel
TakeTickMutant(g) == g
TakeTick(g) == g - 1
\* the history after a caller has received a tick and its call went from
\* the record r to s
Attempted(log, r, s) ==
  [log EXCEPT !.taken = @ + 1, !.attempts = @ + (s.tries - r.tries)]

\* the ticker puts a tick into rateLimiter.C; a tick that finds the channel full is dropped
TickerFire ==
  /\ Running
  /\ gate = 0
  /\ gate' = 1
  /\ gateLog' = [gateLog EXCEPT !.ticks = @ + 1]
  /\ UNCHANGED <<pipelineVars, timedVars>>

\* ------------------------------------------------------------ main

\* chapterIDs = append(chapterIDs, id[:2]) over the list; slicing a shorter id panics
SliceOK(ids) == \A k \in 1..Len(ids) : Len(ids[k]) >= 2
Prefixes(ids) == [k \in 1..Len(ids) |-> SubSeq(ids[k], 1, 2)]

\* where main goes once makeAPIRequest(baseURL + "/chapters") has returned
AfterList(r, list) ==
  IF ~r.ok THEN "fatal"
  ELSE IF ~list.json THEN "fatal"
  ELSE IF ~SliceOK(list.Data) THEN "panic"
  ELSE "spawn"

\* main's call of makeAPIRequest has moved to r; when it has returned, the
\* two log.Fatalf exits, the parse and the chapterIDs loop
MainCallStep(r) ==
  /\ mreq' = r
  /\ IF r.state = "returned"
     THEN /\ mpc' = AfterList(r, catalog.list)
          /\ chapterIDs' = IF mpc' = "spawn" THEN Prefixes(catalog.list.Data)
                           ELSE chapterIDs
     ELSE UNCHANGED <<mpc, chapterIDs>>
  /\ UNCHANGED <<catalog, enq, jobs, jobsClosed, resultsChan, resultsClosed, wpc, trav,
                 cpc, allFoundEntries, completedChapters, opc, uniqueEntries, outFile, taken,
                 produced, chap, timedVars>>

\* main receives a tick and starts an attempt of the chapter-list request
MainTick ==
  /\ mpc = "bootstrap"
  /\ mreq.state = "waiting"
  /\ gate = 1
  /\ gate' = TakeTick(gate)
  /\ gateLog' = Attempted(gateLog, mreq, StartAttempt(mreq))
  /\ MainCallStep(StartAttempt(mreq))

\* the chapter-list request is answered
MainAnswer ==
  /\ mpc = "bootstrap"
  /\ mreq.state = "inflight"
  /\ MainCallStep(Answer(mreq, OutcomeAt(catalog.list.script, mreq.i + 1)))
  /\ UNCHANGED <<gate, gateLog>>

\* main's backoff is over
MainWake ==
  /\ mpc = "bootstrap"
  /\ mreq.state = "asleep"
  /\ MainCallStep(Wake(mreq))
  /\ UNCHANGED <<gate, gateLog>>

\* the channels are made, the progress goroutine and the workers are started
MainSpawn ==
  /\ mpc = "spawn"
  /\ mpc' = "enqueue"
  /\ opc' = "running"
  /\ wpc' = [w \in Workers |-> "recv"]
  /\ UNCHANGED <<catalog, gate, gateLog, mreq, chapterIDs, enq, jobs, jobsClosed, resultsChan,
                 resultsClosed, trav, cpc, allFoundEntries, completedChapters,
                 uniqueEntries, outFile, taken, produced, chap, timedVars>>

\* jobs <- id, on a channel of capacity totalChapters
MainEnqueue ==
  /\ mpc = "enqueue"
  /\ enq <= Len(chapterIDs)
  /\ Len(jobs) < totalChapters
  /\ jobs' = Append(jobs, chapterIDs[enq])
  /\ enq' = enq + 1
  /\ UNCHANGED <<catalog, gate, gateLog, mpc, mreq, chapterIDs, jobsClosed, resultsChan,
                 resultsClosed, wpc, trav, cpc, allFoundEntries, completedChapters, opc,
                 uniqueEntries, outFile, taken, produced, chap, timedVars>>

\* close(jobs); the collector goroutine is started
MainCloseJobs ==
  /\ mpc = "enqueue"
  /\ enq > Len(chapterIDs)
  /\ jobsClosed' = TRUE
  /\ cpc' = "running"
  /\ mpc' = "wait"
  /\ UNCHANGED <<catalog, gate, gateLog, mreq, chapterIDs, enq, jobs, resultsChan, resultsClosed,
                 wpc, trav, allFoundEntries, completedChapters, opc, uniqueEntries, outFile,
                 taken, produced, chap, timedVars>>

\* wg.Wait() returns when every worker has called wg.Done
WgDone == \A w \in Workers : wpc[w] = "exited"

\* wg.Wait(); close(resultsChan)
MainWait ==
  /\ mpc = "wait"
  /\ WgDone
  /\ resultsClosed' = TRUE
  /\ mpc' = "collectWait"
  /\ UNCHANGED <<catalog, gate, gateLog, mreq, chapterIDs, enq, jobs, jobsClosed, resultsChan,
                 wpc, trav, cpc, allFoundEntries, completedChapters, opc, uniqueEntries, outFile,
                 taken, produced, chap, timedVars>>

\* collectWg.Wait() returns when the collector has called collectWg.Done
CollectDoneMutant == TRUE
CollectDone == cpc = "exited"

\* collectWg.Wait(); main then blocks in done <- true
MainCollectWait ==
  /\ mpc = "collectWait"
  /\ CollectDone
  /\ mpc' = "signal"
  /\ UNCHANGED <<catalog, gate, gateLog, mreq, chapterIDs, enq, jobs, jobsClosed, resultsChan,
                 resultsClosed, wpc, trav, cpc, allFoundEntries, completedChapters, opc,
                 uniqueEntries, outFile, taken, produced, chap, timedVars>>

\* int(float64(barWidth) * percent) when percent is NaN or infinite (total =
\* 0): the result depends on the build; MinInt stands for the smallest int
MinInt == -2147483647
NaNAsInt == {0, MinInt}
barWidth == 50

\* float64 arithmetic on the positive numbers the bar computes with (counts
\* below 2^18).  The 53 significant bits of a float64 are five digits, the
\* first one the leading bit and then four digits of 13 bits; the number is
\* these bits times 2^(exp - 52).  Rounding is to nearest, ties to even.
Base == 2 ^ 13
\* F(v), with v computed once
Bind(v, F(_)) == CHOOSE r \in {F(x) : x \in {v}} : TRUE
\* the smallest k >= 1 with c * 2^k >= t, for c < t
RECURSIVE ShiftUp(_, _)
ShiftUp(c, t) == IF 2 * c >= t THEN 1 ELSE 1 + ShiftUp(2 * c, t)
\* the largest k >= 0 with t * 2^k <= c, for c >= t
RECURSIVE ShiftDown(_, _)
ShiftDown(c, t) == IF 2 * t > c THEN 0 ELSE 1 + ShiftDown(c, 2 * t)
\* c/t as n/d * 2^exp with 1 <= n/d < 2
Scale(c, t) ==
  IF c < t THEN Bind(ShiftUp(c, t), LAMBDA k : [n |-> c * 2 ^ k, d |-> t, exp |-> -k])
  ELSE Bind(ShiftDown(c, t), LAMBDA k : [n |-> c, d |-> t * 2 ^ k, exp |-> k])
\* the first n digits of r/d after the point (r < d), and then what is left
RECURSIVE FracDigits(_, _, _)
FracDigits(r, d, n) ==
  IF n = 0 THEN <<r>>
  ELSE Bind(r * Base, LAMBDA a : <<a \div d>> \o FracDigits(a % d, d, n - 1))
\* v added to the digit k, with the carries
RECURSIVE AddAt(_, _, _)
AddAt(ds, k, v) ==
  IF k = 1 \/ ds[k] + v < Base THEN [ds EXCEPT ![k] = @ + v]
  ELSE Bind([ds EXCEPT ![k] = ds[k] + v - Base], LAMBDA e : AddAt(e, k - 1, 1))
\* n/d * 2^exp rounded to 53 bits: f are the four digits of n/d after the
\* leading bit, and what the division left
RoundQuotient(z, f) ==
  LET raw == <<1, f[1], f[2], f[3], f[4]>>
      up == 2 * f[5] > z.d \/ (2 * f[5] = z.d /\ f[4] % 2 = 1) IN
  Bind(IF up THEN AddAt(raw, 5, 1) ELSE raw,
       LAMBDA m : IF m[1] = 2 THEN [digits |-> <<1, 0, 0, 0, 0>>, exp |-> z.exp + 1]
                  ELSE [digits |-> m, exp |-> z.exp])
\* float64(c) / float64(t) for integers c, t > 0
Float64Div(c, t) ==
  Bind(Scale(c, t),
       LAMBDA z : Bind(FracDigits(z.n - z.d, z.d, 4), LAMBDA f : RoundQuotient(z, f)))
\* the digits of n times the digits ds, from the digit k up
RECURSIVE MulFrom(_, _, _, _)
MulFrom(n, ds, k, carry) ==
  IF k = 1 THEN <<n * ds[1] + carry>>
  ELSE Bind(n * ds[k] + carry,
            LAMBDA v : Append(MulFrom(n, ds, k - 1, v \div Base), v % Base))
RECURSIVE BitLen(_)
BitLen(n) == IF n = 0 THEN 0 ELSE 1 + BitLen(n \div 2)
\* the digits p rounded to 53 bits; the first digit holds the bits from 2^52 up
RoundProduct(p) ==
  Bind(BitLen(p[1]) - 1,
       LAMBDA s :
         LET low == p[5] % (2 ^ s)
             up == s > 0 /\ (2 * low > 2 ^ s
                              \/ (2 * low = 2 ^ s /\ (p[5] \div (2 ^ s)) % 2 = 1))
             cleared == [p EXCEPT ![5] = @ - low] IN
         IF up THEN AddAt(cleared, 5, 2 ^ s) ELSE cleared)
\* float64(n) * x for an integer 0 < n < 2^13
Float64MulInt(n, x) ==
  Bind(x, LAMBDA v :
            [digits |-> Bind(MulFrom(n, v.digits, 5, 0), LAMBDA p : RoundProduct(p)),
             exp |-> v.exp])
\* int(x): the fraction is dropped (x below 2^30)
TruncToInt(x) ==
  Bind(x, LAMBDA v :
    IF v.exp <= 0 THEN v.digits[1] \div (2 ^ (-v.exp))
    ELSE IF v.exp <= 13
         THEN v.digits[1] * 2 ^ v.exp + v.digits[2] \div (2 ^ (13 - v.exp))
    ELSE v.digits[1] * 2 ^ v.exp
         + (v.digits[2] * Base + v.digits[3]) \div (2 ^ (26 - v.exp)))

\* percent := float64(completed) / float64(total)
\* filledWidth := int(float64(barWidth) * percent)
filledWidth(completed, total, nan) ==
  IF total = 0 THEN nan
  ELSE IF completed = 0 THEN 0
  ELSE TruncToInt(Float64MulInt(barWidth, Float64Div(completed, total)))
\* strings.Repeat panics on a negative count
PrintPanics(completed, total, nan) ==
  Bind(filledWidth(completed, total, nan), LAMBDA f : f < 0 \/ barWidth - f < 0)

\* the progress goroutine receives from done and returns; main goes on
ObserverDone ==
  /\ mpc = "signal"
  /\ opc = "running"
  /\ opc' = "exited"
  /\ mpc' = "finish"
  /\ UNCHANGED <<catalog, gate, gateLog, mreq, chapterIDs, enq, jobs, jobsClosed, resultsChan,
                 resultsClosed, wpc, trav, cpc, allFoundEntries, completedChapters,
                 uniqueEntries, outFile, taken, produced, chap, timedVars>>

\* the progress goroutine's ticker case: load the counter, print the bar
ObserverTick ==
  /\ Running
  /\ opc = "running"
  /\ \E nan \in NaNAsInt :
       mpc' = IF PrintPanics(completedChapters, totalChapters, nan) THEN "barPanic" ELSE mpc
  /\ UNCHANGED <<catalog, gate, gateLog, mreq, chapterIDs, enq, jobs, jobsClosed, resultsChan,
                 resultsClosed, wpc, trav, cpc, allFoundEntries, completedChapters, opc,
                 uniqueEntries, outFile, taken, produced, chap, timedVars>>

\* csv.NewWriter(file) keeps what it is given in a buffer and hands the buffer
\* to the file when it is full and at the deferred Flush; BufLines lines fill it
BufLines == 2
\* writer.Write of the line j returns an error: an earlier Write or this one
\* found the buffer full and the file, with room for `room` lines, refused it
WriteFails(j, room) ==
  \E m \in 1..j : m * BufLines + 1 <= j /\ m * BufLines > room
\* the file after the header, the rows and the deferred Flush and Close: what
\* the file had room for; `warned` are the rows of the log.Printf
WriteFile(entries, room) ==
  LET lines == 1 + Len(entries)
      onDisk == IF room < lines THEN room ELSE lines IN
  [exists |-> TRUE,
   header |-> onDisk >= 1,
   rows |-> IF onDisk >= 2 THEN SubSeq(entries, 1, onDisk - 1) ELSE <<>>,
   warned |-> {k \in 1..Len(entries) : WriteFails(k + 1, room)}]

\* the last bar, the deduplication, the sort and the file
MainFinish ==
  /\ mpc = "finish"
  /\ \E nan \in NaNAsInt :
       IF PrintPanics(totalChapters, totalChapters, nan)
       THEN mpc' = "barPanic" /\ UNCHANGED <<uniqueEntries, outFile>>
       ELSE LET unique == Aggregate(allFoundEntries) IN
            /\ uniqueEntries' = unique
            /\ \/ \* os.Create fails: log.Fatalf
                  mpc' = "fileFatal" /\ UNCHANGED outFile
               \/ \E room \in 0..(1 + Len(unique)) :
                    IF WriteFails(1, room)
                    THEN \* the header: log.Fatalf
                         mpc' = "fileFatal" /\ outFile' = WriteFile(<<>>, 0)
                    ELSE mpc' = "done" /\ outFile' = WriteFile(unique, room)
  /\ UNCHANGED <<catalog, gate, gateLog, mreq, chapterIDs, enq, jobs, jobsClosed, resultsChan,
                 resultsClosed, wpc, trav, cpc, allFoundEntries, completedChapters, opc,
                 taken, produced, chap, timedVars>>

\* ------------------------------------------------------------ workers

\* what a receive from jobs leaves in the channel
JobsAfterRecvMutant(q) == q
JobsAfterRecv(q) == Tail(q)

\* for chapterID := range jobs: a receive; processChapter runs to its first request
WorkerRecv(w) ==
  /\ Running
  /\ wpc[w] = "recv"
  /\ jobs # <<>>
  /\ jobs' = JobsAfterRecv(jobs)
  /\ chap' = [chap EXCEPT ![w] = jobs[1]]
  /\ trav' = [trav EXCEPT ![w] = StartChapter(jobs[1])]
  /\ wpc' = [wpc EXCEPT ![w] = "expand"]
  /\ taken' = taken (+) SetToBag({jobs[1]})
  /\ UNCHANGED <<catalog, gate, gateLog, mpc, mreq, chapterIDs, enq, jobsClosed, resultsChan,
                 resultsClosed, cpc, allFoundEntries, completedChapters, opc,
                 uniqueEntries, outFile, produced, timedVars>>

\* the range over jobs ends: the channel is closed and drained; wg.Done()
WorkerExit(w) ==
  /\ Running
  /\ wpc[w] = "recv"
  /\ jobs = <<>>
  /\ jobsClosed
  /\ wpc' = [wpc EXCEPT ![w] = "exited"]
  /\ UNCHANGED <<catalog, gate, gateLog, mpc, mreq, chapterIDs, enq, jobs, jobsClosed,
                 resultsChan, resultsClosed, trav, cpc, allFoundEntries,
                 completedChapters, opc, uniqueEntries, outFile, taken, produced, chap, timedVars>>

\* worker w's traversal has moved to tr; when processChapter has returned
\* the worker goes on to send the result
WorkerCallStep(w, tr) ==
  /\ trav' = [trav EXCEPT ![w] = tr]
  /\ IF Finished(tr)
     THEN /\ wpc' = [wpc EXCEPT ![w] = "send"]
          /\ produced' = produced (+) SetToBag({<<chap[w], tr.finalEntries>>})
     ELSE UNCHANGED <<wpc, produced>>
  /\ UNCHANGED <<catalog, mpc, mreq, chapterIDs, enq, jobs, jobsClosed, resultsChan,
                 resultsClosed, cpc, allFoundEntries, completedChapters, opc,
                 uniqueEntries, outFile, taken, chap, timedVars>>

\* the worker receives a tick and starts an attempt of the request it is in
WorkerTick(w) ==
  /\ Running
  /\ wpc[w] = "expand"
  /\ trav[w].req.state = "waiting"
  /\ gate = 1
  /\ gate' = TakeTick(gate)
  /\ gateLog' = Attempted(gateLog, trav[w].req, StartAttempt(trav[w].req))
  /\ WorkerCallStep(w, TravStart(trav[w], catalog))

\* the worker's request is answered
WorkerAnswer(w) ==
  /\ Running
  /\ wpc[w] = "expand"
  /\ trav[w].req.state = "inflight"
  /\ WorkerCallStep(w, TravAnswer(trav[w], catalog))
  /\ UNCHANGED <<gate, gateLog>>

\* the worker's backoff is over
WorkerWake(w) ==
  /\ Running
  /\ wpc[w] = "expand"
  /\ trav[w].req.state = "asleep"
  /\ WorkerCallStep(w, TravWake(trav[w], catalog))
  /\ UNCHANGED <<gate, gateLog>>

\* resultsChan <- result, on a channel of capacity totalChapters
WorkerSend(w) ==
  /\ Running
  /\ wpc[w] = "send"
  /\ Len(resultsChan) < totalChapters
  /\ resultsChan' = Append(resultsChan, trav[w].finalEntries)
  /\ wpc' = [wpc EXCEPT ![w] = "incr"]
  /\ UNCHANGED <<catalog, gate, gateLog, mpc, mreq, chapterIDs, enq, jobs, jobsClosed,
                 resultsClosed, trav, cpc, allFoundEntries, completedChapters, opc,
                 uniqueEntries, outFile, taken, produced, chap, timedVars>>

\* atomic.AddInt32(&v, delta); the counter stays far below the int32 range
\* (one increment per chapter)
AddInt32Mutant(v, delta) == v + delta + delta
AddInt32(v, delta) == v + delta

\* atomic.AddInt32(&completedChapters, 1)
WorkerIncr(w) ==
  /\ Running
  /\ wpc[w] = "incr"
  /\ completedChapters' = AddInt32(completedChapters, 1)
  /\ wpc' = [wpc EXCEPT ![w] = "recv"]
  /\ UNCHANGED <<catalog, gate, gateLog, mpc, mreq, chapterIDs, enq, jobs, jobsClosed,
                 resultsChan, resultsClosed, trav, cpc, allFoundEntries, opc,
                 uniqueEntries, outFile, taken, produced, chap, timedVars>>

\* ------------------------------------------------------------ collector

\* for entries := range resultsChan: append(allFoundEntries, entries...)
CollectorRecv ==
  /\ Running
  /\ cpc = "running"
  /\ resultsChan # <<>>
  /\ allFoundEntries' = allFoundEntries \o resultsChan[1]
  /\ resultsChan' = Tail(resultsChan)
  /\ UNCHANGED <<catalog, gate, gateLog, mpc, mreq, chapterIDs, enq, jobs, jobsClosed,
                 resultsClosed, wpc, trav, cpc, completedChapters, opc, uniqueEntries, outFile,
                 taken, produced, chap, timedVars>>

\* the range over resultsChan ends; collectWg.Done()
CollectorExit ==
  /\ Running
  /\ cpc = "running"
  /\ resultsChan = <<>>
  /\ resultsClosed
  /\ cpc' = "exited"
  /\ UNCHANGED <<catalog, gate, gateLog, mpc, mreq, chapterIDs, enq, jobs, jobsClosed,
                 resultsChan, resultsClosed, wpc, trav, allFoundEntries,
                 completedChapters, opc, uniqueEntries, outFile, taken, produced, chap, timedVars>>

\* ------------------------------------------------------------ the run

Next ==
  \/ TickerFire
  \/ MainTick
  \/ MainAnswer
  \/ MainWake
  \/ MainSpawn
  \/ MainEnqueue
  \/ MainCloseJobs
  \/ MainWait
  \/ MainCollectWait
  \/ ObserverDone
  \/ ObserverTick
  \/ MainFinish
  \/ \E w \in Workers : WorkerRecv(w)
  \/ \E w \in Workers : WorkerExit(w)
  \/ \E w \in Workers : WorkerTick(w)
  \/ \E w \in Workers : WorkerAnswer(w)
  \/ \E w \in Workers : WorkerWake(w)
  \/ \E w \in Workers : WorkerSend(w)
  \/ \E w \in Workers : WorkerIncr(w)
  \/ CollectorRecv
  \/ CollectorExit

Spec == Init /\ [][Next]_vars

\* the Go scheduler runs every goroutine that can run and the tickers keep
\* firing: a step that stays possible is taken
SpecFair == Spec /\ WF_vars(Next)

\* ------------------------------------------------------------ one call of makeAPIRequest

\* main's call for the chapter list against every script of attempt outcomes
RequestCatalogs ==
  {[list |-> ListOf(s, TRUE, <<c01>>), nodes |-> CatHorses.nodes] : s \in Scripts}

InitRequest ==
  /\ InitCommon
  /\ catalog \in RequestCatalogs
  /\ mpc = "bootstrap"
  /\ wpc = [w \in Workers |-> "unstarted"]
  /\ trav = [w \in Workers |-> EmptyTrav]

NextRequest == TickerFire \/ MainTick \/ MainAnswer \/ MainWake

SpecRequest == InitRequest /\ [][NextRequest]_vars

\* ------------------------------------------------------------ one processChapter

\* Catalogs over the chapter 01 and the nodes 0101 and 0102: every node
\* answers 404, or 500 on every attempt, or a malformed body, or a node that
\* is not declarable, declarable, or declarable with an empty code, and that
\* includes any of the three items below (so cycles, self-references and
\* nodes with two parents occur); the chapter may also include a commodity
\* whose code cannot be put into a URL.
GenItems == <<Item("heading", c0101), Item("commodity", c0102), Item("section", c0101)>>
GenKids(ks) == SelectSeq(GenItems, LAMBDA it : \E k \in ks : GenItems[k] = it)
GenChoices ==
  {[mode |-> m, kids |-> {}] : m \in {"gone", "down", "badjson"}}
  \cup {[mode |-> m, kids |-> ks] : m \in {"plain", "decl", "declEmpty"},
                                    ks \in SUBSET (1..Len(GenItems))}
GenResp(code, ch) ==
  CASE ch.mode = "gone" -> Resp(Always(St(404)), BadJSON)
    [] ch.mode = "down" -> Resp(Always(St(500)), BadJSON)
    [] ch.mode = "badjson" -> Resp(Ok200, BadJSON)
    [] ch.mode = "plain" -> Resp(Ok200, Node(code, "d", FALSE, GenKids(ch.kids)))
    [] ch.mode = "decl" -> Resp(Ok200, Node(code, "d", TRUE, GenKids(ch.kids)))
    [] OTHER -> Resp(Ok200, Node(<<>>, "d", TRUE, GenKids(ch.kids)))
\* the same answer with, in front of what it includes, a commodity whose
\* code cannot be put into a URL
WithBadCode(resp, bad) ==
  IF bad /\ resp.body.json
  THEN [resp EXCEPT !.body.Included = <<Item("commodity", cBad)>> \o @]
  ELSE resp
GenCatalogs ==
  {[list |-> ListOf(Ok200, TRUE, <<c01>>),
    nodes |-> (c01 :> WithBadCode(GenResp(c01, a), bad) @@ c0101 :> GenResp(c0101, b)
               @@ c0102 :> GenResp(c0102, c))] : a \in GenChoices, b \in GenChoices,
                                                 c \in GenChoices, bad \in BOOLEAN}

\* worker 1 has received the chapter 01 and is in processChapter
InitExpand ==
  /\ InitCommon
  /\ catalog \in GenCatalogs
  /\ mpc = "wait"
  /\ wpc = [w \in Workers |-> IF w = 1 THEN "expand" ELSE "exited"]
  /\ trav = [w \in Workers |-> IF w = 1 THEN StartChapter(c01) ELSE EmptyTrav]

NextExpand ==
  \/ TickerFire
  \/ \E w \in Workers : WorkerTick(w)
  \/ \E w \in Workers : WorkerAnswer(w)
  \/ \E w \in Workers : WorkerWake(w)

SpecExpand == InitExpand /\ [][NextExpand]_vars

\* ------------------------------------------------------------ the rate gate in time

\* Callers of makeAPIRequest sharing rateLimiter, with the time: the ticker
\* fires every rateLimit, a request takes any time, a backoff lasts 2^i s.

InitGate ==
  /\ InitCommon
  /\ catalog = CatHorses
  /\ mpc = "wait"
  /\ wpc = [w \in Workers |-> "exited"]
  /\ trav = [w \in Workers |-> EmptyTrav]

\* time passes; at every multiple of rateLimit the ticker sends a tick,
\* which is dropped when rateLimiter.C already holds one
GateAdvance ==
  /\ now < MaxTime
  /\ now' = now + 1
  /\ gate' = IF now' % rateLimit = 0 THEN 1 ELSE gate
  /\ gateLog' = [gateLog EXCEPT !.ticks = @ + (gate' - gate)]
  /\ UNCHANGED <<pipelineVars, callers, starts>>

\* the outcomes a request of the timed model ends with
GateOutcomes == {St(200), St(429), St(404)}

\* a caller calls makeAPIRequest
GateCall(p) ==
  /\ callers[p].req.state = "idle"
  /\ callers' = [callers EXCEPT ![p].req = NewReq(URL(c01))]
  /\ UNCHANGED <<pipelineVars, gate, gateLog, now, starts>>

\* <-rateLimiter.C, then the request starts
GateStart(p) ==
  /\ callers[p].req.state = "waiting"
  /\ gate = 1
  /\ gate' = TakeTick(gate)
  /\ callers' = [callers EXCEPT ![p].req = StartAttempt(callers[p].req)]
  /\ gateLog' = Attempted(gateLog, callers[p].req, StartAttempt(callers[p].req))
  /\ starts' = [last |-> now,
                gap |-> IF starts.last >= 0 /\ now - starts.last < starts.gap
                        THEN now - starts.last ELSE starts.gap]
  /\ UNCHANGED <<pipelineVars, now>>

\* the request ends with some outcome; a retryable one sleeps 2^i seconds
GateFinish(p) ==
  /\ callers[p].req.state = "inflight"
  /\ \E o \in GateOutcomes :
       callers' = [callers EXCEPT ![p] =
                     [req |-> Answer(callers[p].req, o),
                      wake |-> IF Retryable(o)
                               THEN now + Backoff(callers[p].req.i) * Second
                               ELSE callers[p].wake]]
  /\ UNCHANGED <<pipelineVars, gate, gateLog, now, starts>>

\* time.Sleep returns, not before its duration has passed
GateWake(p) ==
  /\ callers[p].req.state = "asleep"
  /\ now >= callers[p].wake
  /\ callers' = [callers EXCEPT ![p].req = Wake(callers[p].req)]
  /\ UNCHANGED <<pipelineVars, gate, gateLog, now, starts>>

NextGate ==
  \/ GateAdvance
  \/ \E p \in Workers : GateCall(p)
  \/ \E p \in Workers : GateStart(p)
  \/ \E p \in Workers : GateFinish(p)
  \/ \E p \in Workers : GateWake(p)

SpecGate == InitGate /\ [][NextGate]_vars

\* ------------------------------------------------------------ the aggregation alone

\* The end of main for every collected list of up to MaxEntries Entries.
\* The codes include the empty string and proper prefixes of each other.
MaxEntries == 4
AggCodes == {<<>>, <<0>>, <<0, 1>>, <<1>>}
AggEntries == [Code : AggCodes, Description : {"a", "b"}]
AggLists == UNION {[1..n -> AggEntries] : n \in 0..MaxEntries}

\* A catalog whose run collects the list es when worker 1 takes every
\* chapter: the k-th chapter answers with the k-th Entry and includes
\* nothing (one chapter without Entry when es is empty).
ChapterCode(k) == <<0, k>>
AggCatalog(es) ==
  IF es = <<>>
  THEN [list |-> ListOf(Ok200, TRUE, <<c01>>),
        nodes |-> [c \in {c01} |-> Resp(Ok200, Node(c01, "a", FALSE, <<>>))]]
  ELSE [list |-> ListOf(Ok200, TRUE, [k \in 1..Len(es) |-> ChapterCode(k)]),
        nodes |-> [c \in {ChapterCode(k) : k \in 1..Len(es)} |->
                     LET k == CHOOSE j \in 1..Len(es) : ChapterCode(j) = c IN
                     Resp(Ok200, Node(es[k].Code, es[k].Description, TRUE, <<>>))]]

\* main has received from collectWg.Wait() and signalled the progress
\* goroutine; worker 1 has expanded every chapter in the order of the list
InitAggregate ==
  \E es \in AggLists :
    LET cat == AggCatalog(es)
        ids == Prefixes(cat.list.Data)
        n == Len(ids) IN
    /\ catalog = cat
    /\ gate = 0
    /\ mpc = "finish"
    /\ mreq = Answer(StartAttempt(NewReq(ListURL)), St(200))
    /\ chapterIDs = ids
    /\ enq = n + 1
    /\ jobs = <<>> /\ jobsClosed = TRUE
    /\ resultsChan = <<>> /\ resultsClosed = TRUE
    /\ wpc = [w \in Workers |-> "exited"]
    /\ trav = [w \in Workers |-> IF w = 1 THEN RunToEnd(StartChapter(ids[n]), cat)
                                  ELSE EmptyTrav]
    /\ chap = [w \in Workers |-> IF w = 1 THEN ids[n] ELSE <<>>]
    /\ cpc = "exited"
    /\ allFoundEntries = es
    /\ completedChapters = n
    /\ opc = "exited"
    /\ uniqueEntries = <<>>
    /\ outFile = NoFile
  /\ outFile = NoFile
    /\ taken = BagOfSeq(ids)
    /\ produced = BagOfSeq([k \in 1..n |-> <<ids[k], processChapter(ids[k], cat)>>])
    /\ now = 0
    /\ callers = [p \in Workers |-> [req |-> IdleReq, wake |-> 0]]
    /\ starts = [last |-> -1, gap |-> rateLimit]
    /\ gateLog = [ticks |-> n + 1, taken |-> n + 1, attempts |-> n + 1]

NextAggregate == MainFinish

SpecAggregate == InitAggregate /\ [][NextAggregate]_vars

\* ------------------------------------------------------------ claims

\* C1: for any number of concurrent callers of makeAPIRequest sharing the
\* rate gate, no two request starts (first attempts and retries alike) are
\* closer together in time than rateLimit.
C1_MinInterval == starts.gap >= rateLimit

\* a retry has started in the timed model (the horizon covers a backoff)
GateRetryStarted == \E p \in Workers : callers[p].req.state = "inflight" /\ callers[p].req.i > 0

\* ---- helpers of the claims

\* the sum of a bag of numbers given as a function over a finite set
RECURSIVE SumOver(_, _)
SumOver(S, f) ==
  IF S = {} THEN 0 ELSE LET x == CHOOSE y \in S : TRUE IN f[x] + SumOver(S \ {x}, f)
\* how many finished processChapter calls were for chapterID c
ProducedFor(c) ==
  LET S == {e \in BagToSet(produced) : e[1] = c} IN SumOver(S, [e \in S |-> produced[e]])
RECURSIVE ConcatAll(_)
ConcatAll(qs) == IF qs = <<>> THEN <<>> ELSE qs[1] \o ConcatAll(Tail(qs))
\* the Entries of all finished processChapter calls, as a bag
RECURSIVE EntriesOfBag(_, _)
EntriesOfBag(S, b) ==
  IF S = {} THEN EmptyBag
  ELSE LET e == CHOOSE y \in S : TRUE
           RECURSIVE Times(_)
           Times(n) == IF n = 0 THEN EmptyBag ELSE BagOfSeq(e[2]) (+) Times(n - 1)
       IN Times(b[e]) (+) EntriesOfBag(S \ {e}, b)
ProducedEntries == EntriesOfBag(BagToSet(produced), produced)

\* C2: every root identifier placed in the job queue is taken by exactly
\* one worker and processChapter is run for it exactly once: what main has
\* sent is, as a bag, what waits in jobs plus what the workers have taken;
\* what was taken is what is being expanded plus what has been expanded;
\* and once wg.Wait() has returned every chapterID has been expanded once.
C2_ExactlyOnce ==
  /\ taken (+) BagOfSeq(jobs) = BagOfSeq(SubSeq(chapterIDs, 1, enq - 1))
  /\ \A c \in Range(chapterIDs) :
       CopiesIn(c, taken) =
         ProducedFor(c) + Cardinality({w \in Workers : wpc[w] = "expand" /\ chap[w] = c})
  /\ mpc \in {"collectWait", "signal", "finish", "fileFatal", "done"} =>
       \A c \in Range(chapterIDs) :
         ProducedFor(c) = Cardinality({k \in 1..Len(chapterIDs) : chapterIDs[k] = c})
C2_Witness ==
  /\ mpc = "done"
  /\ Len(chapterIDs) > maxWorkers
  /\ \A w \in Workers : \E c \in Range(chapterIDs) : ProducedFor(c) > 0 /\ chap[w] = c

\* C3: main does not start the deduplication before every root has been
\* expanded and every Entry produced has been collected: from the return of
\* collectWg.Wait() on, every worker has exited, every chapterID has a
\* result, the results channel is empty and allFoundEntries is, as a bag,
\* the union of the results of all roots.
C3_AllCollected ==
  mpc \in {"signal", "finish", "fileFatal", "done"} =>
    /\ \A w \in Workers : wpc[w] = "exited"
    /\ BagCardinality(produced) = Len(chapterIDs)
    /\ resultsChan = <<>>
    /\ BagOfSeq(allFoundEntries) = ProducedEntries
C3_Witness ==
  /\ mpc = "finish"
  /\ Len(allFoundEntries) >= 3
  /\ Cardinality({e \in BagToSet(produced) : e[2] # <<>>}) >= 2

\* the output of the run in which the roots are expanded and collected in
\* the order of the chapter list
InOrderOutput ==
  Aggregate(ConcatAll([k \in 1..Len(chapterIDs) |-> processChapter(chapterIDs[k], catalog)]))

\* C4: for a fixed catalog the final rows are the same for every
\* interleaving of the workers and the collector (here: they are the rows
\* of the run that takes the roots in the order of the list).
C4_SameOutput == mpc = "done" => uniqueEntries = InOrderOutput

\* ---- the aggregation

\* the codes of a list of Entries
CodesOf(entries) == {entries[k].Code : k \in 1..Len(entries)}
\* the index of the first Entry of the code c in a list
FirstAt(entries, c) ==
  CHOOSE k \in 1..Len(entries) :
    entries[k].Code = c /\ \A j \in 1..(k - 1) : entries[j].Code # c
\* a < b in the order of strings: a proper prefix, or smaller at the first difference
StrictlyBefore(a, b) ==
  \/ Len(a) < Len(b) /\ \A k \in 1..Len(a) : a[k] = b[k]
  \/ \E k \in 1..Len(a) : /\ k <= Len(b) /\ a[k] < b[k]
                           /\ \A j \in 1..(k - 1) : a[j] = b[j]

\* C11: the aggregator's output (uniqueEntries, and with it the rows that
\* reach the file) has at most one Entry per code and is strictly ascending
\* by code: every row's code is smaller than the next row's.
C11_SortedUnique ==
  mpc = "done" =>
    \A out \in {uniqueEntries, outFile.rows} :
      /\ \A i, j \in 1..Len(out) : i # j => out[i].Code # out[j].Code
      /\ \A i \in 1..(Len(out) - 1) : StrictlyBefore(out[i].Code, out[i + 1].Code)
C11_Witness ==
  /\ mpc = "done"
  /\ Len(allFoundEntries) = 4
  /\ [k \in 1..Len(uniqueEntries) |-> uniqueEntries[k].Code] = <<<<>>, <<0>>, <<0, 1>>>>

\* C12: for every code of the collected list uniqueEntries holds exactly one
\* Entry of that code, and it is the first Entry of that code in collection
\* order; uniqueEntries holds nothing else.
C12_FirstWins ==
  mpc = "done" =>
    /\ CodesOf(uniqueEntries) = CodesOf(allFoundEntries)
    /\ \A c \in CodesOf(allFoundEntries) :
         \A k \in 1..Len(uniqueEntries) :
           uniqueEntries[k].Code = c =>
             uniqueEntries[k] = allFoundEntries[FirstAt(allFoundEntries, c)]
C12_Witness ==
  /\ mpc = "done"
  /\ allFoundEntries = <<[Code |-> <<1>>, Description |-> "b"],
                         [Code |-> <<0>>, Description |-> "a"],
                         [Code |-> <<1>>, Description |-> "a"]>>
  /\ uniqueEntries = <<[Code |-> <<0>>, Description |-> "a"],
                       [Code |-> <<1>>, Description |-> "b"]>>

\* C13: aggregating uniqueEntries again (deduplicate by code, then sort by
\* code) returns it unchanged.
C13_Idempotent == mpc = "done" => Aggregate(uniqueEntries) = uniqueEntries
C13_Witness ==
  /\ mpc = "done"
  /\ Len(uniqueEntries) = 3
  /\ uniqueEntries # allFoundEntries
  /\ Aggregate(uniqueEntries) = uniqueEntries

\* ---- the whole run

\* the identifiers reachable from the listed chapters through included
\* items of kind heading or commodity
RECURSIVE ReachableFrom(_, _)
ReachableFrom(S, cat) ==
  LET items == UNION {Range(cat.nodes[c].body.Included) : c \in S \cap DOMAIN cat.nodes}
      kept == {it.code : it \in {x \in items : x.Type \in {"heading", "commodity"}}} IN
  IF kept \subseteq S THEN S ELSE ReachableFrom(S \cup kept, cat)
Roots(cat) == {SubSeq(id, 1, 2) : id \in Range(cat.list.Data)}
Reachable(cat) == ReachableFrom(Roots(cat), cat)
\* every request of the run answers 200 at once with a well-formed body
AllSucceed(cat) ==
  /\ cat.list.script[1] = St(200) /\ cat.list.json
  /\ \A id \in Range(cat.list.Data) : Len(id) >= 2
  /\ \A c \in Reachable(cat) :
       /\ c \in DOMAIN cat.nodes
       /\ cat.nodes[c].script[1] = St(200)
       /\ cat.nodes[c].body.json
\* the codes the declarable reachable nodes carry
DeclarableCodes(cat) ==
  {cat.nodes[c].body.Data.code :
     c \in {d \in Reachable(cat) : cat.nodes[d].body.Data.Declarable}}

\* C14: when every request succeeds with a well-formed response, a run that
\* reports its result has written the header and one row for each distinct
\* code of a declarable node reachable from a listed chapter through included
\* headings and commodities, and nothing else; the count reported,
\* len(uniqueEntries), is the number of rows of the file.
C14_ExactRows ==
  (mpc = "done" /\ AllSucceed(catalog)) =>
    /\ outFile.exists /\ outFile.header
    /\ CodesOf(outFile.rows) = DeclarableCodes(catalog)
    /\ Len(outFile.rows) = Cardinality(DeclarableCodes(catalog))
    /\ Len(uniqueEntries) = Len(outFile.rows)

\* the part of C14 that holds: the slice handed to the csv writer has one
\* Entry for each such code, and the file holds a prefix of it
AggregatorExactRows ==
  (mpc = "done" /\ AllSucceed(catalog)) =>
    /\ CodesOf(uniqueEntries) = DeclarableCodes(catalog)
    /\ Len(uniqueEntries) = Cardinality(DeclarableCodes(catalog))
    /\ outFile.exists
    /\ \E n \in 0..Len(uniqueEntries) : outFile.rows = SubSeq(uniqueEntries, 1, n)
\* the end-to-end scenario with a file that took every line
FileComplete ==
  /\ mpc = "done"
  /\ catalog = CatHorses
  /\ AllSucceed(catalog)
  /\ uniqueEntries = <<[Code |-> c0101210000, Description |-> "Horses"]>>
  /\ outFile = [exists |-> TRUE, header |-> TRUE, rows |-> uniqueEntries, warned |-> {}]
\* a row refused by writer.Write, logged, and counted all the same
RowWarned == mpc = "done" /\ outFile.warned # {}

\* ---- the rate gate

\* C16: every attempt of every caller (the chapter-list request, the node
\* requests, the retries) is made with a tick received from rateLimiter.C
\* and a tick admits at most one attempt: the ticks the channel has accepted
\* are the ticks received plus the tick still in the channel, every receive
\* is followed by at most one call of httpClient.Do, so the attempts never
\* outnumber the ticks; the channel holds at most one tick.
C16_OneTickOneAttempt ==
  /\ gate \in {0, 1}
  /\ gateLog.taken + gate = gateLog.ticks
  /\ gateLog.attempts <= gateLog.taken
  /\ gateLog.attempts <= gateLog.ticks
  /\ gateLog.attempts >= mreq.tries
C16_Witness ==
  /\ mpc = "done"
  /\ catalog = CatFailures
  /\ mreq.tries = 2
  /\ gateLog.attempts = 14
\* a tick received for a URL http.NewRequest refuses: no call of httpClient.Do
TickWithoutRequest ==
  /\ gateLog.attempts < gateLog.taken
  /\ \E w \in Workers : cBad \in trav[w].visited

\* ---- the progress counter

\* the results sent to resultsChan so far: the processChapter calls that
\* have returned, less the workers that have not sent theirs yet
ResultsSent == BagCardinality(produced) - Cardinality({w \in Workers : wpc[w] = "send"})

\* C19: completedChapters changes only by +1, in a step of a worker that has
\* sent its result (the worker is past resultsChan <- result); it is at
\* most the results sent and at most totalChapters in every state, and it is
\* totalChapters once wg.Wait() can return.  Its only reader is the progress
\* goroutine, and what the bar does is the same for every value the
\* counter can have.
C19_CounterMonotone ==
  /\ [][\/ completedChapters' = completedChapters
        \/ /\ completedChapters' = completedChapters + 1
           /\ \E w \in Workers : /\ wpc[w] = "incr" /\ wpc'[w] = "recv"
                                 /\ \A v \in Workers \ {w} : wpc'[v] = wpc[v]]_vars
  /\ [](/\ completedChapters >= 0
        /\ completedChapters <= ResultsSent
        /\ completedChapters <= totalChapters
        /\ completedChapters =
             ResultsSent - Cardinality({w \in Workers : wpc[w] = "incr"}))
  /\ []((mpc \in {"wait", "collectWait", "signal", "finish", "fileFatal", "done"} /\ WgDone) =>
          completedChapters = totalChapters)
  /\ [](\A v \in 0..totalChapters : \A nan \in NaNAsInt :
          PrintPanics(v, totalChapters, nan) =
            PrintPanics(completedChapters, totalChapters, nan))
C19_Witness ==
  /\ mpc = "wait"
  /\ WgDone
  /\ totalChapters = 3
  /\ completedChapters = 3

\* ---- the request client

\* the claim's retryable outcomes: a network failure, 429, 5xx
ClaimRetryable(o) == o.net \/ o.status = 429 \/ (o.status >= 500 /\ o.status <= 599)
\* the outcomes of the attempts main's call sees
ListScript == catalog.list.script
\* the attempts of a call that have been answered
Answered(r) == r.tries - (IF r.state = "inflight" THEN 1 ELSE 0)
\* the backoffs 1s, 2s, 4s, ... after the failed attempts 1..k
Schedule(k) == [j \in 1..k |-> 2 ^ (j - 1)]

\* C5: a call whose every attempt has a retryable outcome makes exactly
\* maxRetries attempts and returns an error; no call makes more than
\* maxRetries attempts.
C5_RetriesCapped ==
  /\ mreq.tries <= maxRetries
  /\ (mreq.state = "returned" /\ \A k \in 1..maxRetries : ClaimRetryable(ListScript[k])) =>
       mreq.tries = maxRetries /\ ~mreq.ok
C5_Witness ==
  /\ mreq.state = "returned"
  /\ \A k \in 1..maxRetries : ClaimRetryable(ListScript[k])
  /\ mreq.tries = maxRetries
  /\ mpc = "fatal"

\* C6: when the first k attempts (k < maxRetries) have retryable outcomes
\* and attempt k+1 returns 200, the call returns the body after exactly k+1
\* attempts and has waited 2^(j-1) seconds after the j-th failed attempt.
C6_RetryThenBody ==
  \A k \in 0..(maxRetries - 1) :
    (/\ mreq.state = "returned"
     /\ \A j \in 1..k : ClaimRetryable(ListScript[j])
     /\ ListScript[k + 1] = St(200)) =>
      /\ mreq.ok /\ mreq.tries = k + 1 /\ mreq.slept = Schedule(k)
      /\ mpc = "spawn" /\ chapterIDs = Prefixes(catalog.list.Data)
C6_Witness ==
  /\ mreq.state = "returned"
  /\ ListScript[1] = St(429) /\ ListScript[2] = NetErr /\ ListScript[3] = St(503)
  /\ ListScript[4] = St(200)
  /\ mreq.ok /\ mreq.tries = 4 /\ mreq.slept = <<1, 2, 4>>

\* C7: an attempt that receives a status other than 200, 429 and 5xx ends
\* the call at once with an error carrying that status: no further attempt
\* and no backoff after it, whatever the attempt number.
C7_FailFast ==
  \A k \in 1..maxRetries :
    (/\ Answered(mreq) >= k
     /\ \A j \in 1..(k - 1) : ClaimRetryable(ListScript[j])
     /\ ~ListScript[k].net
     /\ ListScript[k].status \notin {200, 429}
     /\ ListScript[k].status < 500) =>
      /\ mreq.state = "returned"
      /\ ~mreq.ok
      /\ mreq.errStatus = ListScript[k].status
      /\ mreq.tries = k
      /\ Len(mreq.slept) = k - 1
C7_Witness ==
  /\ mreq.state = "returned"
  /\ ListScript[1] = St(500) /\ ListScript[2] = St(429) /\ ListScript[3] = St(404)
  /\ mreq.tries = 3 /\ mreq.errStatus = 404 /\ mreq.slept = <<1, 2>>

\* ---- the tree expansion

\* how many Entries the expansion of the node c appended in worker w's traversal
EntriesBy(w, c) == Cardinality({k \in 1..Len(trav[w].by) : trav[w].by[k] = c})
\* the catalog's nodes 0101 and 0102 are declarable and include each other
CycleCatalog ==
  /\ catalog.nodes[c0101].body.json /\ catalog.nodes[c0102].body.json
  /\ catalog.nodes[c0101].body.Data.Declarable /\ catalog.nodes[c0102].body.Data.Declarable
  /\ \E k \in 1..Len(catalog.nodes[c0101].body.Included) :
       catalog.nodes[c0101].body.Included[k] = Item("commodity", c0102)
  /\ \E k \in 1..Len(catalog.nodes[c0102].body.Included) :
       catalog.nodes[c0102].body.Included[k] = Item("heading", c0101)

\* every identifier a traversal of the catalog can meet
AllIds == DOMAIN catalog.nodes \cup {c01}
                \cup UNION {{it.code : it \in Range(catalog.nodes[c].body.Included)} :
                            c \in DOMAIN catalog.nodes}
\* the steps the call under way can still take: a tick, an answer and a
\* sleep for each iteration left
StepsLeft(r) ==
  CASE r.state = "waiting" -> 3 * (maxRetries - r.i)
    [] r.state = "inflight" -> 3 * (maxRetries - r.i) - 1
    [] r.state = "asleep" -> 3 * (maxRetries - r.i) - 2
    [] OTHER -> 0
\* A bound on the steps a traversal can still take: a whole call for every
\* identifier not yet visited, and what is left of the call under way.
Measure(tr) == 3 * maxRetries * Cardinality(AllIds \ tr.visited) + StepsLeft(tr.req)

\* C8: for any finite catalog, cycles included, the expansion of a root
\* terminates when every request gets an outcome: every step of the
\* expansion lowers a natural-number bound on the steps still to take, and
\* an expansion that has not returned is waiting for a tick, for the answer
\* to its request or for the end of its backoff, nothing else; and the
\* result never holds more than one Entry appended by the expansion of the
\* same node.
C8_ExpansionTerminates ==
  /\ [][\A w \in Workers : trav[w]' # trav[w] =>
          Measure(trav[w]') >= 0 /\ Measure(trav[w]') < Measure(trav[w])]_vars
  /\ [](wpc[1] = "expand" => InCall(trav[1].req))
  /\ [](\A c \in AllIds : EntriesBy(1, c) <= 1)
C8_Witness ==
  /\ wpc[1] = "send"
  /\ CycleCatalog
  /\ catalog.nodes[c01].body.Included = <<Item("heading", c0101)>>
  /\ EntriesBy(1, c0101) = 1 /\ EntriesBy(1, c0102) = 1

\* how often makeAPIRequest was called for the node c in worker w's traversal
CallsFor(w, c) == Cardinality({k \in 1..Len(trav[w].calls) : trav[w].calls[k] = c})
\* the items a response of the catalog includes for the node c
IncludedBy(c) ==
  IF c \in DOMAIN catalog.nodes /\ catalog.nodes[c].body.json
  THEN Range(catalog.nodes[c].body.Included) ELSE {}

\* C15: within the traversal of one root makeAPIRequest is called at most
\* once for a node identifier, whether the call succeeded or failed and
\* through however many parents the node is reached (a call is at most
\* maxRetries attempts at the same URL); the visited set is exactly the
\* identifiers called for; and the expansion of a node appends at most one
\* Entry to the result.
C15_ExpandedOnce ==
  \A w \in Workers :
    /\ \A c \in Range(trav[w].calls) : CallsFor(w, c) = 1 /\ EntriesBy(w, c) <= 1
    /\ Range(trav[w].calls) = trav[w].visited
    /\ Range(trav[w].by) \subseteq Range(trav[w].calls)
C15_Witness ==
  /\ wpc[1] = "send"
  /\ Item("commodity", c0102) \in IncludedBy(c01)
  /\ Item("commodity", c0102) \in IncludedBy(c0101)
  /\ catalog.nodes[c0102].script = Always(St(500))
  /\ trav[1].calls = <<c01, c0101, c0102>>
  /\ trav[1].finalEntries # <<>>
\* the same with a node under two parents that is declarable and answers
C15_WitnessShared ==
  /\ wpc[1] = "send"
  /\ Item("commodity", c0102) \in IncludedBy(c01)
  /\ Item("commodity", c0102) \in IncludedBy(c0101)
  /\ catalog.nodes[c0102].body.Data.Declarable
  /\ trav[1].calls = <<c01, c0101, c0102>>
  /\ EntriesBy(1, c0102) = 1

\* C17: every Entry a traversal has appended to its result has a non-empty code.
C17_NonEmptyCode ==
  \A w \in Workers : \A k \in 1..Len(trav[w].finalEntries) :
    trav[w].finalEntries[k].Code # <<>>

\* the states processChapter(chapterID) goes through when it starts with an
\* empty visited map and nothing else touches its state
RECURSIVE RunStates(_, _)
RunStates(tr, cat) ==
  IF Finished(tr) THEN {tr} ELSE {tr} \cup RunStates(TravStep(tr, cat), cat)
FreshRun(chapterID) ==
  RunStates([EmptyTrav EXCEPT !.visited = {chapterID}, !.req = NewReq(URL(chapterID)),
                              !.calls = <<chapterID>>], catalog)

\* C18: every traversal starts with a visited set that holds nothing but
\* its root and is read and written by that traversal alone: the state of
\* each worker's traversal is a state of the traversal of its root run on
\* its own from an empty visited set, whatever the worker and the other
\* workers have expanded before, and every result is the result of that run;
\* so a node already expanded under one root is expanded again under
\* another.
C18_FreshVisited ==
  /\ \A w \in Workers :
       wpc[w] \in {"expand", "send", "incr"} => trav[w] \in FreshRun(chap[w])
  /\ \A e \in BagToSet(produced) : e[2] = processChapter(e[1], catalog)
C18_Witness ==
  /\ mpc = "done"
  /\ catalog = CatFailures
  /\ <<c01, <<[Code |-> c0102, Description |-> "kept"],
              [Code |-> c0101210000, Description |-> "Horses"]>>>> \in BagToSet(produced)
  /\ <<c03, <<[Code |-> c03, Description |-> "three"],
              [Code |-> c0102, Description |-> "kept"]>>>> \in BagToSet(produced)
\* the same root listed twice is expanded in full both times
C18_WitnessTwice ==
  /\ mpc = "done"
  /\ catalog = CatCycle
  /\ \E e \in BagToSet(produced) : e[1] = c01 /\ Len(e[2]) = 2 /\ produced[e] = 2

\* whether a call against this script ends without a body: no attempt before
\* the first outcome that is not retryable, or that outcome is not a good 200
CallFails(script) ==
  LET finals == {k \in 1..maxRetries : ~ClaimRetryable(script[k])} IN
  \/ finals = {}
  \/ LET k == CHOOSE m \in finals : \A n \in finals : m <= n IN script[k] # St(200)
NodeFails(resp) == CallFails(resp.script) \/ ~resp.body.json
\* the catalog with every failing node replaced by a node that is not
\* declarable and includes nothing
Healed(cat) ==
  [cat EXCEPT !.nodes = [c \in DOMAIN cat.nodes |->
      IF NodeFails(cat.nodes[c]) THEN Resp(Ok200, Node(<<>>, "", FALSE, <<>>))
      ELSE cat.nodes[c]]]

\* C9: a fetch failure or a parse failure on a node removes only that node's
\* own entry and subtree: the result of every finished traversal is the one
\* it would have if each failing node were a node without entry and without
\* children (so the Entries found before and after it are kept and the other
\* roots are untouched), and a run that ends has collected exactly these.
C9_FailureLocal ==
  /\ \A e \in BagToSet(produced) : e[2] = processChapter(e[1], Healed(catalog))
  /\ mpc = "done" =>
       /\ BagOfSeq(allFoundEntries) =
            BagOfSeq(ConcatAll([k \in 1..Len(chapterIDs) |->
                                  processChapter(chapterIDs[k], Healed(catalog))]))
       /\ uniqueEntries = Aggregate(allFoundEntries)
C9_Witness ==
  /\ mpc = "done"
  /\ catalog = CatFailures
  /\ <<c01, <<[Code |-> c0102, Description |-> "kept"],
              [Code |-> c0101210000, Description |-> "Horses"]>>>> \in BagToSet(produced)
  /\ <<c02, <<>>>> \in BagToSet(produced)
  /\ Len(uniqueEntries) = 3

\* C10: a failure of the chapter-list request or of its parse ends the run
\* before any worker is started, and it is the only failure of the request
\* and traversal pipeline that ends the run: a run that has ended by
\* log.Fatalf or by a panic of main's own code has failed to fetch or to
\* parse the chapter list.
C10_OnlyListFailure ==
  mpc \in {"fatal", "panic"} => ~mreq.ok \/ ~catalog.list.json

\* the part of C10 that holds: a run ended at the chapter list has started
\* no worker, collected nothing and written nothing
AbortedBeforeWorkers ==
  mpc \in {"fatal", "panic"} =>
    /\ \A w \in Workers : wpc[w] = "unstarted" /\ trav[w] = EmptyTrav
    /\ allFoundEntries = <<>> /\ uniqueEntries = <<>> /\ cpc = "unstarted"
    /\ outFile = NoFile

\* ---- the end of the run

\* C20: once the workers are started the run reaches its end (the last
\* line of main, or the log.Fatalf of the output file), for any number of
\* roots.
C20_Terminates == (mpc = "enqueue") ~> (mpc \in {"done", "fileFatal"})

\* the part of C20 that holds: with at least one root the run reaches its end
TerminatesWithRoots ==
  (mpc = "enqueue" /\ totalChapters > 0) ~> (mpc \in {"done", "fileFatal"})
\* and for any number of roots no send blocks: main's sends to jobs and the
\* workers' sends to resultsChan find room, the progress goroutine is there
\* to receive the done-signal
NoSendBlocks ==
  /\ (mpc = "enqueue" /\ enq <= Len(chapterIDs)) => Len(jobs) < totalChapters
  /\ \A w \in Workers : wpc[w] = "send" => Len(resultsChan) < totalChapters
  /\ mpc = "signal" => opc = "running"

====
